---- MODULE Spec2Model ----
(***************************************************************************)
(* Order book of pruebaStream.py: the store st.session_state["orderbook"], *)
(* the ingestion thread (iniciar_ws / on_message / aplicar_update), the    *)
(* script run that loads the snapshot once and refreshes the heatmap       *)
(* (actualizar_grafica), and the lock depth_lock shared by the two.        *)
(*                                                                         *)
(* Numbers.  A float is a record [nan, v]: F(n) is the number n and NaN is *)
(* not-a-number.  Prices and quantities of the model are whole numbers of  *)
(* the feed's unit; the mid price (a half when best bid + best ask is odd) *)
(* is kept as twice its value.                                             *)
(***************************************************************************)
EXTENDS Integers, Sequences, FiniteSets, TLC

\* Bound of the model: how many messages the feed delivers in one session.
MaxMsgs == 2

\* Program constants.
step == 10
rango_usd == 4000

F(n) == [nan |-> FALSE, v |-> n]
NaN == [nan |-> TRUE, v |-> 0]

(***************************************************************************)
(* float(): the numeric strings of the model and the value each parses to. *)
(* A string outside the table ("x") makes float() raise ValueError.        *)
(***************************************************************************)
Literal ==
  [s \in {"0", "1", "2", "3", "4", "5", "-3", "90", "100", "105", "110", "120",
          "130", "8005", "20000", "NaN", "-5"} |->
     CASE s = "0" -> F(0)
       [] s = "1" -> F(1)
       [] s = "2" -> F(2)
       [] s = "3" -> F(3)
       [] s = "4" -> F(4)
       [] s = "5" -> F(5)
       [] s = "-3" -> F(0 - 3)
       [] s = "90" -> F(90)
       [] s = "100" -> F(100)
       [] s = "105" -> F(105)
       [] s = "110" -> F(110)
       [] s = "120" -> F(120)
       [] s = "130" -> F(130)
       [] s = "8005" -> F(8005)
       [] s = "20000" -> F(20000)
       [] s = "NaN" -> NaN
       [] s = "-5" -> F(0 - 5)]

floatRaises(s) == s \notin DOMAIN Literal
float(s) == Literal[s]

Row(p, q, side) == [price |-> p, quantity |-> q, side |-> side]

\* A list of [priceString, quantityString] pairs none of which makes float() raise.
PairsParse(pairs) ==
  \A i \in DOMAIN pairs : ~floatRaises(pairs[i][1]) /\ ~floatRaises(pairs[i][2])

\* The rows one side's list of pairs yields, in feed order.
SideRows(pairs, side) ==
  [i \in DOMAIN pairs |-> Row(float(pairs[i][1]), float(pairs[i][2]), side)]

(***************************************************************************)
(* Delta messages.  json: json.loads succeeds; hasB/hasA: the key is in    *)
(* the payload; b/a: the lists of pairs.                                   *)
(***************************************************************************)
Msg(json, hasB, b, hasA, a) ==
  [json |-> json, hasB |-> hasB, b |-> b, hasA |-> hasA, a |-> a]

MsgTie == Msg(TRUE, TRUE, <<<<"105", "3">>>>, TRUE, <<<<"130", "0">>>>)
MsgCancel == Msg(TRUE, TRUE, <<<<"100", "3">>>>, TRUE, <<<<"105", "-3">>>>)
MsgBadLate == Msg(TRUE, TRUE, <<<<"90", "3">>, <<"100", "x">>>>, TRUE, <<<<"110", "1">>>>)
MsgNoKeys == Msg(TRUE, FALSE, <<>>, FALSE, <<>>)
MsgBidOnly == Msg(TRUE, TRUE, <<<<"20000", "1">>, <<"110", "2">>>>, FALSE, <<>>)
MsgNaN == Msg(TRUE, TRUE, <<<<"NaN", "1">>>>, FALSE, <<>>)
MsgNotJson == Msg(FALSE, FALSE, <<>>, FALSE, <<>>)
MsgNegBid == Msg(TRUE, TRUE, <<<<"-5", "1">>>>, FALSE, <<>>)

Messages ==
  {MsgTie, MsgCancel, MsgBadLate, MsgNoKeys, MsgBidOnly, MsgNaN, MsgNotJson, MsgNegBid}

\* data.get("b", []) and data.get("a", [])
GetB(data) == IF data.hasB THEN data.b ELSE <<>>
GetA(data) == IF data.hasA THEN data.a ELSE <<>>

\* on_message(message) raises: json.loads fails, or a float() of either loop does.
OnMessageRaises(m) == ~m.json \/ ~PairsParse(GetB(m)) \/ ~PairsParse(GetA(m))

\* Faulty variant of UpdateRows: the loop over data.get("a", []) is missing.
UpdateRowsBidsOnly(data) == SideRows(GetB(data), "bid")

\* update_df of aplicar_update: the bid rows, then the ask rows.
UpdateRows(data) == SideRows(GetB(data), "bid") \o SideRows(GetA(data), "ask")

\* Faulty variant of concat: only the first row of the update reaches the store.
concatFirstRow(df, update_df) ==
  IF update_df = <<>> THEN df ELSE Append(df, Head(update_df))

\* Faulty variant of concat: the two frames are concatenated in the other order.
concatPrepend(df, update_df) == update_df \o df

\* pd.concat([orderbook, update_df], ignore_index=True)
concat(df, update_df) == df \o update_df

(***************************************************************************)
(* Snapshot responses.  ok: the request and response.json() succeed.       *)
(***************************************************************************)
Resp(ok, hasBids, bids, hasAsks, asks) ==
  [ok |-> ok, hasBids |-> hasBids, bids |-> bids, hasAsks |-> hasAsks, asks |-> asks]

RespFail == Resp(FALSE, FALSE, <<>>, FALSE, <<>>)
RespNoAsksKey == Resp(TRUE, TRUE, <<<<"100", "5">>>>, FALSE, <<>>)
RespNoBidsKey == Resp(TRUE, FALSE, <<>>, TRUE, <<<<"110", "4">>>>)
RespEmpty == Resp(TRUE, TRUE, <<>>, TRUE, <<>>)
RespBidsOnly == Resp(TRUE, TRUE, <<<<"100", "5">>>>, TRUE, <<>>)
RespScenario ==
  Resp(TRUE, TRUE, <<<<"100", "5">>, <<"90", "3">>>>, TRUE, <<<<"110", "4">>, <<"120", "2">>>>)
RespFar == Resp(TRUE, TRUE, <<<<"100", "5">>>>, TRUE, <<<<"20000", "2">>>>)
RespEdge == Resp(TRUE, TRUE, <<<<"5", "1">>>>, TRUE, <<<<"8005", "1">>>>)

Responses ==
  {RespFail, RespNoAsksKey, RespNoBidsKey, RespEmpty, RespBidsOnly, RespScenario, RespFar,
   RespEdge}

\* The "Datos de ejemplo temporales" of the except branch.
Placeholder ==
  <<Row(F(28000), F(10), "bid"), Row(F(28100), F(20), "bid"),
    Row(F(28200), F(15), "bid"), Row(F(28300), F(5), "bid"),
    Row(F(28000), F(8), "ask"), Row(F(28100), F(12), "ask"),
    Row(F(28200), F(7), "ask"), Row(F(28300), F(9), "ask")>>

\* Faulty variant of cargar_snapshot: the except branch returns an empty frame.
cargar_snapshotEmpty(r) ==
  IF ~r.ok \/ ~r.hasBids \/ ~r.hasAsks \/ ~PairsParse(r.bids) \/ ~PairsParse(r.asks)
  THEN <<>>
  ELSE SideRows(r.bids, "bid") \o SideRows(r.asks, "ask")

cargar_snapshot(r) ==
  IF ~r.ok \/ ~r.hasBids \/ ~r.hasAsks \/ ~PairsParse(r.bids) \/ ~PairsParse(r.asks)
  THEN Placeholder
  ELSE SideRows(r.bids, "bid") \o SideRows(r.asks, "ask")

(***************************************************************************)
(* actualizar_grafica, after the copy: the pandas and numpy computations   *)
(* on the private frame ob.                                                *)
(***************************************************************************)
Max(S) == CHOOSE x \in S : \A y \in S : y <= x
Min(S) == CHOOSE x \in S : \A y \in S : x <= y

RECURSIVE SortDesc(_)
\* sorted(..., reverse=True) of a set of distinct values
SortDesc(S) == IF S = {} THEN <<>> ELSE <<Max(S)>> \o SortDesc(S \ {Max(S)})

\* ob[ob['side'] == side]['price'] without its NaN entries (max, min and nunique skip NaN)
SidePrices(df, side) ==
  {df[i].price.v : i \in {j \in DOMAIN df : df[j].side = side /\ ~df[j].price.nan}}

niveles(df, side) == Cardinality(SidePrices(df, side))

\* Faulty variant of best_ask: rows of quantity 0 (removals) are left out.
best_askPositiveQty(df) ==
  LET S == {df[i].price.v : i \in {j \in DOMAIN df : /\ df[j].side = "ask"
                                                     /\ ~df[j].price.nan
                                                     /\ df[j].quantity.v # 0}}
  IN  IF S = {} THEN NaN ELSE F(Min(S))

\* Series.max() / Series.min(): NaN when nothing is left after skipping NaN
best_bid(df) == IF SidePrices(df, "bid") = {} THEN NaN ELSE F(Max(SidePrices(df, "bid")))
best_ask(df) == IF SidePrices(df, "ask") = {} THEN NaN ELSE F(Min(SidePrices(df, "ask")))

isna(x) == x.nan

\* 2 * mid_price, for a frame whose best bid and best ask are numbers
mid_price2(df) == best_bid(df).v + best_ask(df).v

\* price // step * step (floor division)
Bin(p) == (p \div step) * step

\* .astype(int) raises on a NaN (Cannot convert non-finite values to integer)
AstypeRaises(df) == \E i \in DOMAIN df : df[i].price.nan

\* ob["price"] = (ob["price"] // step * step).astype(int): prices become plain integers
Binned(df) == [i \in DOMAIN df |-> [df[i] EXCEPT !.price = Bin(df[i].price.v)]]

\* Faulty variant of InWindow: the upper limit of the window is missing.
InWindowLowerOnly(p, mid2) == 2 * p >= mid2 - 2 * rango_usd

\* mid_price - rango_usd <= p <= mid_price + rango_usd, doubled
InWindow(p, mid2) == 2 * p >= mid2 - 2 * rango_usd /\ 2 * p <= mid2 + 2 * rango_usd

\* ob = ob[(ob["price"] >= ...) & (ob["price"] <= ...)] on the binned frame
Window(df) ==
  LET mid2 == mid_price2(df)
      keep(r) == InWindow(r.price, mid2)
  IN  SelectSeq(Binned(df), keep)

IndexOf(w) == {w[i].price : i \in DOMAIN w}

y_vals(w) == SortDesc(IndexOf(w))

\* the columns of pivot_table(columns="side"): the sides that occur in the frame
Columns(w) == {w[i].side : i \in DOMAIN w}

RECURSIVE SumQuantity(_, _, _)
\* aggfunc="sum" over the rows of one (price, side) group; sum skips NaN
SumQuantity(w, p, s) ==
  IF w = <<>> THEN 0
  ELSE LET r == Head(w)
           q == IF r.price = p /\ r.side = s /\ ~r.quantity.nan THEN r.quantity.v ELSE 0
       IN  q + SumQuantity(Tail(w), p, s)

\* pivot.values, keyed by (price, side); a (price, side) without rows is fill_value = 0
z_values(w) == [k \in IndexOf(w) \X Columns(w) |-> SumQuantity(w, k[1], k[2])]

RECURSIVE SumOver(_, _)
SumOver(f, D) ==
  IF D = {} THEN 0
  ELSE LET d == CHOOSE x \in D : TRUE IN f[d] + SumOver(f, D \ {d})

\* z_values.sum(axis=1) for the row of price p
RowSum(w, p) == SumOver(z_values(w), {p} \X Columns(w))

total_levels(w) == Len(y_vals(w))

\* Faulty variant of occupied_levels: a row counts when any of its cells is nonzero.
occupied_levelsAnyCell(w) ==
  Cardinality({p \in IndexOf(w) : \E s \in Columns(w) : z_values(w)[<<p, s>>] # 0})

\* np.count_nonzero(z_values.sum(axis=1))
occupied_levels(w) == Cardinality({p \in IndexOf(w) : RowSum(w, p) # 0})

NoResult ==
  [kind |-> "none", niveles_bid |-> 0, niveles_ask |-> 0, mid2 |-> 0, y_vals |-> <<>>,
   columns |-> {}, z |-> <<>>, total_levels |-> 0, occupied_levels |-> 0]

\* What one call renders: the level counts are written first, then one of the exits.
Rendered(df, kind) ==
  [NoResult EXCEPT !.kind = kind, !.niveles_bid = niveles(df, "bid"),
                   !.niveles_ask = niveles(df, "ask")]

Grid(df) ==
  LET w == Window(df)
  IN  [Rendered(df, "grid") EXCEPT !.mid2 = mid_price2(df), !.y_vals = y_vals(w),
         !.columns = Columns(w), !.z = z_values(w),
         !.total_levels = total_levels(w), !.occupied_levels = occupied_levels(w)]

\* The exits of actualizar_grafica on the copy df.
IsNoData(df) == df = <<>>
\* Faulty variant of IsNoLevels: "and" in place of "or".
IsNoLevelsBoth(df) == ~(df = <<>>) /\ (isna(best_bid(df)) /\ isna(best_ask(df)))

IsNoLevels(df) == ~IsNoData(df) /\ (isna(best_bid(df)) \/ isna(best_ask(df)))
HasLevels(df) == ~IsNoData(df) /\ ~IsNoLevels(df)
\* an exception leaves the function: astype(int) on NaN, or occupied_levels / 0
GraficaRaises(df) == HasLevels(df) /\ (AstypeRaises(df) \/ total_levels(Window(df)) = 0)
IsGrid(df) == HasLevels(df) /\ ~GraficaRaises(df)

(***************************************************************************)
(* State.                                                                  *)
(*   orderbook   st.session_state["orderbook"]                             *)
(*   ws_thread   "ws_thread" in st.session_state                           *)
(*   depth_lock  "free", or the actor that holds it: "ws" or "script"      *)
(*   wsPc        the ingestion thread: "off" (not started), "listen",      *)
(*               "acquire" (update_df built, at the with), "cs" (inside    *)
(*               the with), "raised" (an exception left on_message)        *)
(*   update_df   the rows aplicar_update has built                         *)
(*   scriptPc    the script run: "idle", "acquire" (at the with of         *)
(*               actualizar_grafica), "copy" (inside it), "aggregate"      *)
(*   ob          the private copy of actualizar_grafica                    *)
(*   result      what the placeholder shows                                *)
(* History, read by the properties only:                                   *)
(*   delivered   the messages on_message was called with, in order         *)
(*   loaded      what cargar_snapshot returned                             *)
(*   seen        how many delivered messages had left aplicar_update when  *)
(*               ob was copied                                             *)
(*   response    the response cargar_snapshot got: <<>>, then <<r>>        *)
(*   loads       how many times line 63 has set the store                  *)
(*   threads     how many ingestion threads line 65 has started            *)
(*   prev        the refresh before the current one: its seen and result   *)
(***************************************************************************)
VARIABLES orderbook, ws_thread, depth_lock, wsPc, update_df, scriptPc, ob, result,
          delivered, loaded, seen, response, loads, threads, prev

vars ==
  <<orderbook, ws_thread, depth_lock, wsPc, update_df, scriptPc, ob, result,
    delivered, loaded, seen, response, loads, threads, prev>>

\* the history variables no step but the first run and a rerun writes
once == <<response, loads, threads, prev>>

Init ==
  /\ orderbook = <<>>
  /\ ws_thread = FALSE
  /\ depth_lock = "free"
  /\ wsPc = "off"
  /\ update_df = <<>>
  /\ scriptPc = "idle"
  /\ ob = <<>>
  /\ result = NoResult
  /\ delivered = <<>>
  /\ loaded = <<>>
  /\ seen = 0
  /\ response = <<>>
  /\ loads = 0
  /\ threads = 0
  /\ prev = [seen |-> 0, result |-> NoResult]

\* Faulty variant of AfterCallbackError: the exception ends run_forever and the thread.
AfterCallbackErrorStops == "closed"

\* where run_forever goes after on_message raised: _callback logs the error and returns
AfterCallbackError == "listen"

(***************************************************************************)
(* The script.                                                             *)
(***************************************************************************)
\* Faulty variant of NeedsInit: the initialisation runs in every run of the script.
NeedsInitAlways == TRUE

\* if "ws_thread" not in st.session_state
NeedsInit == ~ws_thread

\* Faulty variant of CanAcquire: the with block is entered whoever holds the lock.
CanAcquireAlways == TRUE

\* with depth_lock: blocks until the lock is free
CanAcquire == depth_lock = "free"

\* Faulty variant of LockAfterCopy: the with block of actualizar_grafica does not end
\* after the copy but spans the rest of the function.
LockKeptAfterCopy == "script"

\* the lock when the with block of actualizar_grafica ends, right after the copy
LockAfterCopy == "free"

\* Faulty variant of StoreAfterBinning: ob is the stored frame itself, not a copy, so
\* line 97 writes the binned prices into the store.
StoreAfterBinningAliased(store) ==
  [i \in DOMAIN store |->
     [store[i] EXCEPT !.price = IF @.nan THEN @ ELSE F((@.v \div step) * step)]]

\* the store after line 97 has written the binned prices into ob: ob is a copy
\* (line 77), so the store keeps its rows
StoreAfterBinning(store) == store

\* First run of a session: load the snapshot, start the thread, reach the refresh.
FirstRun(r) ==
  /\ scriptPc = "idle"
  /\ NeedsInit
  /\ orderbook' = cargar_snapshot(r)
  /\ loaded' = cargar_snapshot(r)
  /\ response' = <<r>>
  /\ loads' = loads + 1
  /\ threads' = threads + 1
  /\ ws_thread' = TRUE
  /\ wsPc' = "listen"
  /\ scriptPc' = "acquire"
  /\ result' = NoResult
  /\ UNCHANGED <<depth_lock, update_df, ob, delivered, seen, prev>>

\* A later run of the script in the same session: the initialisation is skipped.
Rerun ==
  /\ scriptPc = "idle"
  /\ ~NeedsInit
  /\ scriptPc' = "acquire"
  /\ prev' = [seen |-> seen, result |-> result]
  /\ result' = NoResult
  /\ UNCHANGED <<orderbook, ws_thread, depth_lock, wsPc, update_df, ob, delivered,
                 loaded, seen, response, loads, threads>>

\* with depth_lock: (actualizar_grafica)
RefreshAcquire ==
  /\ scriptPc = "acquire"
  /\ CanAcquire
  /\ depth_lock' = "script"
  /\ scriptPc' = "copy"
  /\ UNCHANGED <<orderbook, ws_thread, wsPc, update_df, ob, result, delivered, loaded,
                 seen, once>>

\* ob = st.session_state["orderbook"].copy(), and the with block ends
RefreshCopy ==
  /\ scriptPc = "copy"
  /\ ob' = orderbook
  /\ seen' = IF wsPc \in {"acquire", "cs"} THEN Len(delivered) - 1 ELSE Len(delivered)
  /\ depth_lock' = LockAfterCopy
  /\ scriptPc' = "aggregate"
  /\ UNCHANGED <<orderbook, ws_thread, wsPc, update_df, result, delivered, loaded, once>>

\* the run ends showing r, with the store as the function left it
Finish(r, store) ==
  /\ result' = r
  /\ orderbook' = store
  /\ scriptPc' = "idle"
  /\ UNCHANGED <<ws_thread, depth_lock, wsPc, update_df, ob, delivered, loaded, seen,
                 once>>

\* if ob.empty: warning "Cargando datos del order book..."; return
AggregateNoData ==
  /\ scriptPc = "aggregate"
  /\ IsNoData(ob)
  /\ Finish(Rendered(ob, "no_data"), orderbook)

\* if pd.isna(best_bid) or pd.isna(best_ask): warning "No hay datos validos aun..."; return
AggregateNoLevels ==
  /\ scriptPc = "aggregate"
  /\ IsNoLevels(ob)
  /\ Finish(Rendered(ob, "no_levels"), orderbook)

\* an exception ends the run: at line 97, before ob["price"] is written, or at line 116
AggregateRaises ==
  /\ scriptPc = "aggregate"
  /\ GraficaRaises(ob)
  /\ Finish(Rendered(ob, "raised"),
            IF AstypeRaises(ob) THEN orderbook ELSE StoreAfterBinning(orderbook))

\* the heatmap is drawn
AggregateGrid ==
  /\ scriptPc = "aggregate"
  /\ IsGrid(ob)
  /\ Finish(Grid(ob), StoreAfterBinning(orderbook))

(***************************************************************************)
(* The ingestion thread.                                                   *)
(***************************************************************************)
\* on_message -> aplicar_update up to update_df = pd.DataFrame(updates)
OnMessageParsed(m) ==
  /\ wsPc = "listen"
  /\ Len(delivered) < MaxMsgs
  /\ ~OnMessageRaises(m)
  /\ delivered' = Append(delivered, m)
  /\ update_df' = UpdateRows(m)
  /\ wsPc' = "acquire"
  /\ UNCHANGED <<orderbook, ws_thread, depth_lock, scriptPc, ob, result, loaded, seen,
                 once>>

\* on_message with a message that makes json.loads or float() raise: the rows built
\* so far are in the local list updates, and the exception leaves on_message
OnMessageRaised(m) ==
  /\ wsPc = "listen"
  /\ Len(delivered) < MaxMsgs
  /\ OnMessageRaises(m)
  /\ delivered' = Append(delivered, m)
  /\ wsPc' = "raised"
  /\ UNCHANGED <<orderbook, ws_thread, depth_lock, update_df, scriptPc, ob, result,
                 loaded, seen, once>>

\* WebSocketApp's callback wrapper catches what on_message raised
CallbackError ==
  /\ wsPc = "raised"
  /\ wsPc' = AfterCallbackError
  /\ UNCHANGED <<orderbook, ws_thread, depth_lock, update_df, scriptPc, ob, result,
                 delivered, loaded, seen, once>>

\* with depth_lock: (aplicar_update)
WsAcquire ==
  /\ wsPc = "acquire"
  /\ CanAcquire
  /\ depth_lock' = "ws"
  /\ wsPc' = "cs"
  /\ UNCHANGED <<orderbook, ws_thread, update_df, scriptPc, ob, result, delivered,
                 loaded, seen, once>>

\* orderbook = pd.concat([orderbook, update_df], ignore_index=True), and the with ends
WsConcat ==
  /\ wsPc = "cs"
  /\ orderbook' = concat(orderbook, update_df)
  /\ update_df' = <<>>
  /\ depth_lock' = "free"
  /\ wsPc' = "listen"
  /\ UNCHANGED <<ws_thread, scriptPc, ob, result, delivered, loaded, seen, once>>

Next ==
  \/ \E r \in Responses : FirstRun(r)
  \/ Rerun
  \/ RefreshAcquire
  \/ RefreshCopy
  \/ AggregateNoData
  \/ AggregateNoLevels
  \/ AggregateRaises
  \/ AggregateGrid
  \/ \E m \in Messages : OnMessageParsed(m)
  \/ \E m \in Messages : OnMessageRaised(m)
  \/ CallbackError
  \/ WsAcquire
  \/ WsConcat

Spec == Init /\ [][Next]_vars

\* The scheduling the properties about progress assume: a thread that can take its
\* next step without waiting for anything takes it (the callback wrapper returns, a
\* thread inside a with block leaves it).
FairSpec ==
  /\ Spec
  /\ WF_vars(CallbackError)
  /\ WF_vars(WsConcat)
  /\ WF_vars(RefreshCopy)

\* Fair scheduling of the lock as well: a thread that finds the lock free again and
\* again while it waits at a with block gets it.
FairLockSpec ==
  /\ FairSpec
  /\ SF_vars(WsAcquire)
  /\ SF_vars(RefreshAcquire)

(***************************************************************************)
(* Vocabulary of the properties, stated on the history and on the raw rows *)
(* of the copy rather than through the operators above.                    *)
(***************************************************************************)
\* the rows message m adds: none when on_message raised on it
RowCount(m) == IF OnMessageRaises(m) THEN 0 ELSE Len(GetB(m)) + Len(GetA(m))
AppendedRows(m) == IF OnMessageRaises(m) THEN <<>> ELSE UpdateRows(m)

RECURSIVE RowCountOfFirst(_, _)
RowCountOfFirst(msgs, k) ==
  IF k = 0 THEN 0 ELSE RowCountOfFirst(msgs, k - 1) + RowCount(msgs[k])

RECURSIVE RowsOfFirst(_, _)
RowsOfFirst(msgs, k) ==
  IF k = 0 THEN <<>> ELSE RowsOfFirst(msgs, k - 1) \o AppendedRows(msgs[k])

\* the ingestion thread is between two messages
WsQuiet == wsPc \in {"listen", "raised"}

\* floor(p / step) * step: the multiple of step in (p - step, p]
FloorBin(p) == CHOOSE b \in (p - step + 1)..p : b % step = 0

RawPrices(df, side) == {df[i].price.v : i \in {j \in DOMAIN df : df[j].side = side}}
RawMid2(df) == Max(RawPrices(df, "bid")) + Min(RawPrices(df, "ask"))
HasBests(df) ==
  /\ \A i \in DOMAIN df : ~df[i].price.nan
  /\ RawPrices(df, "bid") # {}
  /\ RawPrices(df, "ask") # {}

\* the distinct binned prices of df inside [mid - W, mid + W]
WindowBins(df) ==
  {b \in {FloorBin(df[i].price.v) : i \in DOMAIN df} :
     2 * b >= RawMid2(df) - 2 * rango_usd /\ 2 * b <= RawMid2(df) + 2 * rango_usd}

RECURSIVE SideSumUpTo(_, _, _, _)
\* the sum of the quantities of the rows 1..n of df with side s whose price bins to b
SideSumUpTo(df, n, b, s) ==
  IF n = 0 THEN 0
  ELSE SideSumUpTo(df, n - 1, b, s)
       + (IF df[n].side = s /\ FloorBin(df[n].price.v) = b THEN df[n].quantity.v ELSE 0)

SideSum(df, b, s) == SideSumUpTo(df, Len(df), b, s)

\* a refresh has drawn a grid from the copy ob
GridShown == result.kind = "grid"
\* a refresh has ended, one way or another, on the copy ob
RefreshEnded == result.kind # "none"

(***************************************************************************)
(* C1.  Row count.  The copy a refresh takes has as many rows as the       *)
(* snapshot load gave plus the rows (bid updates + ask updates) of every   *)
(* message that had gone through aplicar_update by then; a message that    *)
(* failed to parse, and a missing "b" or "a" key, add nothing.  Between    *)
(* two messages the same holds of the store for all delivered messages.    *)
(***************************************************************************)
C1_RowCount ==
  /\ scriptPc = "aggregate" => Len(ob) = Len(loaded) + RowCountOfFirst(delivered, seen)
  /\ (ws_thread /\ WsQuiet) =>
       Len(orderbook) = Len(loaded) + RowCountOfFirst(delivered, Len(delivered))

\* a copy taken after a message that failed and a message without the "a" key
C1_Witness ==
  /\ scriptPc = "aggregate"
  /\ seen = 2
  /\ delivered = <<MsgBadLate, MsgBidOnly>>
  /\ Len(ob) = Len(loaded) + 2

(***************************************************************************)
(* C2.  Point-in-time copy.  Under every interleaving the copy of a        *)
(* refresh is the loaded rows followed by all the rows of the first k      *)
(* delivered messages, for some whole k: never a part of a message.        *)
(***************************************************************************)
C2_ConsistentCopy ==
  scriptPc = "aggregate" =>
    \E k \in 0..Len(delivered) : ob = loaded \o RowsOfFirst(delivered, k)

\* the copy was taken while a two-row message waited at the lock: k = 1 of 2
C2_Witness ==
  /\ scriptPc = "aggregate"
  /\ wsPc = "acquire"
  /\ delivered = <<MsgTie, MsgBidOnly>>
  /\ ob = loaded \o UpdateRows(MsgTie)

(***************************************************************************)
(* C3.  A malformed message leaves the store as it was, the well-formed    *)
(* pairs before the bad one included, and its failure does not raise past  *)
(* on_message.                                                             *)
(***************************************************************************)
C3_MalformedContained ==
  [][(Len(delivered') = Len(delivered) + 1 /\ OnMessageRaises(delivered'[Len(delivered')]))
       => (orderbook' = orderbook /\ wsPc' # "raised")]_vars

ScenarioRows ==
  <<Row(F(100), F(5), "bid"), Row(F(90), F(3), "bid"),
    Row(F(110), F(4), "ask"), Row(F(120), F(2), "ask")>>

(***************************************************************************)
(* C5.  Pivot.  In every grid, for every in-window binned price b and each *)
(* side s, the cell (b, s) is the sum of the quantities of the rows of     *)
(* side s whose price bins to b (0 when there is none), with               *)
(* bin(p) = floor(p / 10) * 10; the scenario book gives rows               *)
(* [120, 110, 100, 90] with [Bid, Ask] = [[0,2],[0,4],[5,0],[3,0]].        *)
(***************************************************************************)
C5_CellsAreSums ==
  GridShown =>
    /\ \A b \in WindowBins(ob) : \A s \in {"bid", "ask"} :
         /\ <<b, s>> \in DOMAIN result.z
         /\ result.z[<<b, s>>] = SideSum(ob, b, s)
    /\ ob = ScenarioRows =>
         /\ result.y_vals = <<120, 110, 100, 90>>
         /\ <<result.z[<<120, "bid">>], result.z[<<120, "ask">>]>> = <<0, 2>>
         /\ <<result.z[<<110, "bid">>], result.z[<<110, "ask">>]>> = <<0, 4>>
         /\ <<result.z[<<100, "bid">>], result.z[<<100, "ask">>]>> = <<5, 0>>
         /\ <<result.z[<<90, "bid">>], result.z[<<90, "ask">>]>> = <<3, 0>>

(***************************************************************************)
(* C6.  Window.  With mid = (best bid + best ask) / 2 on the raw prices    *)
(* and W = 4000, every row of a grid has its binned price in               *)
(* [mid - W, mid + W], every distinct binned price of the copy inside the  *)
(* window is exactly one row, and the rows are in strictly descending      *)
(* price order.                                                            *)
(***************************************************************************)
C6_WindowRows ==
  GridShown =>
    LET y == result.y_vals
    IN  /\ \A i \in DOMAIN y :
             /\ 2 * y[i] >= RawMid2(ob) - 2 * rango_usd
             /\ 2 * y[i] <= RawMid2(ob) + 2 * rango_usd
        /\ {y[i] : i \in DOMAIN y} = WindowBins(ob)
        /\ \A i \in 1..(Len(y) - 1) : y[i] > y[i + 1]

\* a grid of three rows or more drawn from a copy that also has a row outside the window
C6_Witness ==
  /\ GridShown
  /\ Len(result.y_vals) >= 3
  /\ \E i \in DOMAIN ob : FloorBin(ob[i].price.v) \notin WindowBins(ob)
  /\ \E i \in DOMAIN ob : FloorBin(ob[i].price.v) # ob[i].price.v

(***************************************************************************)
(* C7.  Every grid has exactly the two columns Bid and Ask, also when the  *)
(* rows inside the window are all of one side, and as many rows as there   *)
(* are distinct in-window binned prices.                                   *)
(***************************************************************************)
C7_TwoColumns ==
  GridShown =>
    /\ result.columns = {"bid", "ask"}
    /\ Len(result.y_vals) = Cardinality(WindowBins(ob))

\* no row of the given side has a price that is a number
NoPriceOn(df, side) == \A i \in DOMAIN df : df[i].side = side => df[i].price.nan

(***************************************************************************)
(* C8.  Degenerate inputs are states, not exceptions: a refresh of an      *)
(* empty store ends in "no data"; a refresh of a non-empty store without a *)
(* Bid row or without an Ask row, or with only NaN prices on one side,     *)
(* ends in "no valid levels"; neither computes a grid or raises.           *)
(***************************************************************************)
C8_DegenerateStates ==
  RefreshEnded =>
    /\ ob = <<>> => result.kind = "no_data"
    /\ (ob # <<>> /\ (NoPriceOn(ob, "bid") \/ NoPriceOn(ob, "ask"))) =>
         result.kind = "no_levels"
    /\ result.kind \in {"no_data", "no_levels"} =>
         (result.y_vals = <<>> /\ result.columns = {} /\ result.total_levels = 0)

\* a refresh of a store that has Bid rows, all of them with a NaN price
C8_Witness ==
  /\ result.kind = "no_levels"
  /\ \E i \in DOMAIN ob : ob[i].side = "bid"
  /\ NoPriceOn(ob, "bid")

(***************************************************************************)
(* C9.  Empty window.  A refresh of a store that has a best bid and a best *)
(* ask but no binned price in [mid - 4000, mid + 4000] ends in a result of *)
(* its own, neither "no data" nor "no valid levels", and does not raise.   *)
(***************************************************************************)
C9_EmptyWindow ==
  (RefreshEnded /\ HasBests(ob) /\ WindowBins(ob) = {}) =>
    result.kind \notin {"raised", "no_data", "no_levels"}

\* the Bid + Ask total of the in-window bin b of df
BinTotal(df, b) == SideSum(df, b, "bid") + SideSum(df, b, "ask")

\* every row of df that bins to b has quantity 0
OnlyZeros(df, b) ==
  \A i \in DOMAIN df : FloorBin(df[i].price.v) = b => df[i].quantity.v = 0

\* what every computed occupancy satisfies: occupied_levels / total_levels * 100 is the
\* share of rows with a nonzero Bid + Ask total, within [0, 100]
OccupancyIsShare ==
  /\ result.total_levels = Cardinality(WindowBins(ob))
  /\ result.total_levels > 0
  /\ result.occupied_levels
       = Cardinality({b \in WindowBins(ob) : BinTotal(ob, b) # 0})
  /\ 0 <= result.occupied_levels * 100
  /\ result.occupied_levels * 100 <= 100 * result.total_levels
  /\ result.occupied_levels
       <= result.total_levels - Cardinality({b \in WindowBins(ob) : OnlyZeros(ob, b)})

(***************************************************************************)
(* C10.  Occupancy, as claimed: it is the share of grid rows with a        *)
(* nonzero Bid + Ask total, lies in [0, 100], counts rows of zeros as      *)
(* unoccupied, and is 100 when every in-window bin has a nonzero sum on at *)
(* least one side.                                                         *)
(***************************************************************************)
C10_OccupancyAnySide ==
  GridShown =>
    /\ OccupancyIsShare
    /\ (\A b \in WindowBins(ob) :
          SideSum(ob, b, "bid") # 0 \/ SideSum(ob, b, "ask") # 0)
         => result.occupied_levels = result.total_levels

(***************************************************************************)
(* C10, amended.  Occupancy is the share of grid rows with a nonzero       *)
(* Bid + Ask total, lies in [0, 100], counts rows of zeros as unoccupied,  *)
(* and is 100 when every in-window bin has a nonzero Bid + Ask total; when *)
(* no quantity is negative that is the same as a nonzero sum on at least   *)
(* one side.                                                               *)
(***************************************************************************)
C10_OccupancyByTotal ==
  GridShown =>
    /\ OccupancyIsShare
    /\ (\A b \in WindowBins(ob) : BinTotal(ob, b) # 0)
         => result.occupied_levels = result.total_levels
    /\ ((\A i \in DOMAIN ob : ob[i].quantity.v >= 0)
        /\ (\A b \in WindowBins(ob) :
              SideSum(ob, b, "bid") # 0 \/ SideSum(ob, b, "ask") # 0))
         => result.occupied_levels = result.total_levels

\* a grid with a bin whose Bid sum and Ask sum are nonzero and cancel, and a full bin
C10_Witness ==
  /\ GridShown
  /\ \E b \in WindowBins(ob) : SideSum(ob, b, "bid") # 0 /\ BinTotal(ob, b) = 0
  /\ \E b \in WindowBins(ob) : BinTotal(ob, b) # 0

(***************************************************************************)
(* C11.  A row with a NaN price is appended like any other, and every      *)
(* later refresh of a store that holds such a row ends with a grid or with *)
(* "no valid levels", never with an error, also when the store holds valid *)
(* bids and asks besides it.                                               *)
(***************************************************************************)
C11_NaNTolerated ==
  /\ (ws_thread /\ WsQuiet) =>
       Len(orderbook) = Len(loaded) + RowCountOfFirst(delivered, Len(delivered))
  /\ (RefreshEnded /\ \E i \in DOMAIN ob : ob[i].price.nan) =>
       result.kind \in {"grid", "no_levels"}

\* the request failed, the response did not parse, or it lacks "bids" or "asks"
BadResponse(r) == ~r.ok \/ ~r.hasBids \/ ~r.hasAsks

RowsOfSide(df, side) == {i \in DOMAIN df : df[i].side = side}

(***************************************************************************)
(* C12.  When the snapshot source is unavailable or malformed,             *)
(* cargar_snapshot returns the placeholder book of 4 Bid and 4 Ask rows:   *)
(* the store is non-empty after load, no refresh of the session ends in    *)
(* "no data" or "no valid levels", and the refresh of the store as loaded  *)
(* draws a grid.                                                           *)
(***************************************************************************)
C12_SnapshotFallback ==
  (response # <<>> /\ BadResponse(response[1])) =>
    /\ loaded # <<>>
    /\ Cardinality(RowsOfSide(loaded, "bid")) = 4
    /\ Cardinality(RowsOfSide(loaded, "ask")) = 4
    /\ \A i \in DOMAIN loaded : ~loaded[i].price.nan
    /\ SubSeq(orderbook, 1, Len(loaded)) = loaded
    /\ RefreshEnded => result.kind \notin {"no_data", "no_levels"}
    /\ (RefreshEnded /\ ob = loaded) => result.kind = "grid"

\* the first refresh after a response without the "bids" key has drawn its grid
C12_Witness ==
  /\ response = <<RespNoBidsKey>>
  /\ prev.result.kind = "none"
  /\ ob = loaded
  /\ result.kind = "grid"
  /\ Len(result.y_vals) = 4

(***************************************************************************)
(* C13.  Replay is idempotent: when the message just handled is the same   *)
(* as the one before it, the store is the same as after the first of the   *)
(* two.                                                                    *)
(***************************************************************************)
C13_ReplayIdempotent ==
  LET n == Len(delivered)
  IN  (wsPc = "listen" /\ n >= 2 /\ delivered[n] = delivered[n - 1]) =>
        orderbook = loaded \o RowsOfFirst(delivered, n - 1)

(***************************************************************************)
(* C14.  Load happens once per session and before any append: the store is *)
(* set from the snapshot before the ingestion thread exists, and a later   *)
(* run of the script, with "ws_thread" in the session state, neither sets  *)
(* the store again nor starts a second thread; the store changes only in   *)
(* the with block of the one ingestion thread.                             *)
(***************************************************************************)
C14_LoadOnce ==
  /\ [](/\ loads <= 1
        /\ threads <= 1
        /\ ws_thread <=> loads = 1
        /\ wsPc # "off" <=> threads = 1
        /\ threads = 1 => loads = 1
        /\ delivered # <<>> => loads = 1
        /\ loads = 0 => orderbook = <<>>)
  /\ [][loads = 1 =>
          /\ loads' = 1
          /\ threads' = 1
          /\ loaded' = loaded
          /\ orderbook' # orderbook => (wsPc = "cs" /\ wsPc' = "listen")]_vars

\* a second run of the script is refreshing a store that has grown since the load
C14_Witness ==
  /\ prev.result.kind # "none"
  /\ scriptPc = "aggregate"
  /\ loads = 1
  /\ threads = 1
  /\ Len(orderbook) > Len(loaded)

(***************************************************************************)
(* C15, as claimed.  The lock is held only while the store is copied or    *)
(* replaced: in every state where the refresh is aggregating or the        *)
(* snapshot is being loaded, the lock is free.                             *)
(***************************************************************************)
C15_LockFreeOutside ==
  /\ depth_lock # "free" => (scriptPc = "copy" \/ wsPc = "cs")
  /\ scriptPc = "aggregate" => depth_lock = "free"
  /\ ~ws_thread => depth_lock = "free"

(***************************************************************************)
(* C15, amended.  Each actor holds the lock exactly while it is inside its *)
(* own with block (the copy, the concatenation): while the refresh is      *)
(* aggregating or the snapshot is being loaded the script does not hold    *)
(* it, and while the thread listens or parses the thread does not hold it; *)
(* the other actor may hold it meanwhile for its own copy or               *)
(* concatenation.                                                          *)
(***************************************************************************)
C15_LockOnlyAroundStore ==
  /\ depth_lock = "script" <=> scriptPc = "copy"
  /\ depth_lock = "ws" <=> wsPc = "cs"
  /\ ~ws_thread => depth_lock = "free"

\* the thread is inside its with block while the refresh is aggregating
C15_Witness ==
  /\ scriptPc = "aggregate"
  /\ wsPc = "cs"
  /\ depth_lock = "ws"

IsPrefix(s, t) == Len(s) <= Len(t) /\ SubSeq(t, 1, Len(s)) = s

\* the rows of a well-formed message in feed order: its bid pairs, then its ask pairs
FeedRows(m) ==
  LET b == GetB(m)
      a == GetA(m)
  IN  [i \in 1..(Len(b) + Len(a)) |->
         IF i <= Len(b)
         THEN Row(float(b[i][1]), float(b[i][2]), "bid")
         ELSE Row(float(a[i - Len(b)][1]), float(a[i - Len(b)][2]), "ask")]

RECURSIVE JournalOf(_, _)
\* the rows the first k messages add, message after message
JournalOf(msgs, k) ==
  IF k = 0 THEN <<>>
  ELSE JournalOf(msgs, k - 1)
       \o (IF OnMessageRaises(msgs[k]) THEN <<>> ELSE FeedRows(msgs[k]))

(***************************************************************************)
(* C16.  Append-only journal.  After load no row is removed, changed or    *)
(* reordered: every step leaves the old store a prefix of the new one;     *)
(* between two messages the store is the loaded rows followed by the rows  *)
(* of the messages in delivery order, each message's bid rows before its   *)
(* ask rows in feed order; and every copy is a prefix of the next copy.    *)
(***************************************************************************)
C16_AppendOnlyJournal ==
  /\ []((ws_thread /\ WsQuiet) =>
          orderbook = loaded \o JournalOf(delivered, Len(delivered)))
  /\ [][IsPrefix(orderbook, orderbook') /\ IsPrefix(ob, ob')]_vars

\* a second copy that holds more messages than the copy before it
C16_Witness ==
  /\ scriptPc = "aggregate"
  /\ prev.result.kind # "none"
  /\ prev.seen < seen
  /\ Len(ob) >= Len(loaded) + 3

(***************************************************************************)
(* C17.  Every row of the store has side Bid or Ask and a non-negative     *)
(* price (stated here for the rows whose price is a number).               *)
(***************************************************************************)
C17_RowsWellFormed ==
  \A i \in DOMAIN orderbook :
    /\ orderbook[i].side \in {"bid", "ask"}
    /\ orderbook[i].price.nan \/ orderbook[i].price.v >= 0

PricedRows(df, side) == {i \in RowsOfSide(df, side) : ~df[i].price.nan}

\* some Bid row of df is priced above some Ask row of df
Crossed(df) ==
  \E i \in PricedRows(df, "bid") : \E j \in PricedRows(df, "ask") :
    df[i].price.v > df[j].price.v

\* x is at least every price of the rows in I of df, and is the price of one of them
IsBestOf(x, df, I, above) ==
  IF I = {} THEN x.nan
  ELSE /\ ~x.nan
       /\ \E i \in I : df[i].price.v = x.v
       /\ \A i \in I : IF above THEN df[i].price.v <= x.v ELSE x.v <= df[i].price.v

(***************************************************************************)
(* C20.  Best bid and best ask are taken over every row recorded for the   *)
(* side, whatever its quantity: the best bid of a refresh is the highest   *)
(* price of all Bid rows of its copy and the best ask the lowest price of  *)
(* all Ask rows, rows of quantity 0 included.  From one refresh to the     *)
(* next the best bid never decreases and the best ask never increases, and *)
(* once the store holds a Bid row priced above an Ask row it keeps one and *)
(* every later refresh has best bid > best ask.                            *)
(***************************************************************************)
C20_BestOverAllRows ==
  /\ [](/\ IsBestOf(best_bid(ob), ob, PricedRows(ob, "bid"), TRUE)
        /\ IsBestOf(best_ask(ob), ob, PricedRows(ob, "ask"), FALSE))
  /\ [][/\ ~isna(best_bid(ob)) =>
             (~isna(best_bid(ob')) /\ best_bid(ob').v >= best_bid(ob).v)
        /\ ~isna(best_ask(ob)) =>
             (~isna(best_ask(ob')) /\ best_ask(ob').v <= best_ask(ob).v)]_vars
  /\ [][Crossed(orderbook) => Crossed(orderbook')]_vars
  /\ [][(scriptPc = "copy" /\ scriptPc' = "aggregate" /\ Crossed(orderbook)) =>
          (/\ ~isna(best_bid(ob')) /\ ~isna(best_ask(ob'))
           /\ best_bid(ob').v > best_ask(ob').v)]_vars

\* a refresh of a book that was loaded uncrossed and has become crossed, whose best
\* ask is a row of quantity 0
C20_Witness ==
  /\ scriptPc = "aggregate"
  /\ ~Crossed(loaded)
  /\ Crossed(ob)
  /\ \E j \in PricedRows(ob, "ask") :
       ob[j].quantity.v = 0 /\ ob[j].price.v = best_ask(ob).v

====
